---- MODULE Spec2Model ----
(***************************************************************************)
(* rust-mqtt: the incremental packet receiver (src/io/reader.rs) and the   *)
(* connection state machine with the Raw client (src/client/raw).          *)
(*                                                                         *)
(* Four specifications share this module:                                  *)
(*   Spec     PacketReceiver::poll driven against a byte transport, with   *)
(*            cancellation at every await point, and into_decoder;         *)
(*   SpecRaw  NetState and the operations of Raw;                          *)
(*   SpecRx   NetState under handle_rx, the receive-error conversion;      *)
(*   SpecSend Raw::send write by write, with cancellation.                 *)
(***************************************************************************)
EXTENDS Integers, Sequences, FiniteSets, TLC

\* ------------------------------------------------------------------ bounds
\* capacity of the caller-provided receive buffer (Raw::new_disconnected
\* requires at least 5)
BufLen == 5
\* number of bytes the transport delivers in one behaviour
MaxBytes == 5
\* largest number of bytes one body read returns
MaxChunk == 2
\* number of frames written to the transports in one behaviour
MaxWire == 2

\* number of bytes the transport delivers in one behaviour of the
\* header-assembly specification
MaxHdrBytes == 7
\* largest number of bytes of a packet body given to a decoder
MaxBody == 4
\* largest number of bytes left in the stream under a BodyReader
MaxStream == 4
\* number of operations on one BodyReader
MaxOps == 3
\* number of sends that reach the transport in one behaviour
MaxSends == 3
\* number of bytes of an encoded packet
PacketLen == 3

\* ------------------------------------------------------- program constants
MaxHeaderIndex == 4
ContinuationBit == 128

\* byte values the transport delivers: 0 and 2 are no valid type+flags byte
\* and end a variable byte integer; 16 (CONNECT) is a valid type+flags byte
\* and ends a variable byte integer; 129 is a valid type+flags byte
\* (SUBSCRIBE nibble) and a continuation byte.
Bytes == {0, 2, 16, 129}

\* byte values of the header-assembly specification: 0x00 is no valid
\* type+flags byte and ends a length; 0x10 and 0x7F are valid type+flags
\* bytes and end a length; 0xD7 and 0xFF are valid type+flags bytes and
\* continuation bytes.
HeaderBytes == {0, 16, 127, 215, 255}

\* byte values of the bodies given to a decoder: 0 and 1 are the two
\* booleans and 2 is neither; 00 01 and 00 02 are the lengths of short
\* binaries. All are below 128 so that a u32 stays within the integers of
\* the model checker.
DecBytes == {0, 1, 2}
\* the bodies of the examples: the four-byte big-endian 0x01020304 and the
\* binary of five bytes behind its length 00 05
ExampleBodies == {<<1, 2, 3, 4>>, <<0, 5, 1, 2, 3, 4, 255>>}

ErrorKinds == {"ConnectionReset"}

\* ---------------------------------------------------------------- helpers
RECURSIVE Pow128(_)
Pow128(k) == IF k = 0 THEN 1 ELSE 128 * Pow128(k - 1)

Min(a, b) == IF a < b THEN a ELSE b

\* Option<FixedHeader>
NoHeader == [some |-> FALSE, type_and_flags |-> 0, remaining_len |-> 0]
SomeHeader(t, l) == [some |-> TRUE, type_and_flags |-> t, remaining_len |-> l]

\* PacketType::from_type_and_flags(byte).is_ok(): the packet type is the top
\* nibble and nibble 0 is reserved.
from_type_and_flags_ok(byte) == (byte \div 16) # 0

\* VarByteInt::from_slice_unchecked(&buf[1..=i]).size(): the low seven bits
\* of each byte, least significant group first, accumulated with a running
\* multiplier.
RECURSIVE vbi_accumulate(_, _, _, _, _)
vbi_accumulate(bf, j, last, mult, acc) ==
    IF j > last THEN acc
    ELSE vbi_accumulate(bf, j + 1, last, mult * 128, acc + (bf[j] % 128) * mult)

from_slice_unchecked(bf, last) == vbi_accumulate(bf, 1, last, 1, 0)

\* ------------------------------------------------------------------- state
VARIABLES
    \* PacketReceiver
    header,        \* Option<FixedHeader>
    buf,           \* the borrowed buffer, [0..BufLen-1 -> byte]
    initialized,   \* bytes filled into buf
    \* the poll future
    pc,            \* "idle" | "hdr_read" | "body_read" | "ub"
    i,             \* the local `i` of try_read_header
    res,           \* how the last poll ended
    \* transport and history
    rx,            \* every byte taken from the transport so far, in order
    cancelAt,      \* the values of Len(rx) at which a poll was cancelled
                   \* (recorded until the first poll returns)
    returned,      \* some poll returned (Ok, Err or panic)
    hdrCount,      \* headers completed so far (saturates at 2)
    hdrEnd,        \* Len(rx) when the stored header was completed
    tokens,        \* tokens returned so far (saturates at 2)
    firstTokenEnd, \* Len(rx) when the first token was returned
    \* Raw
    n,             \* NetState
    wire,          \* every write and flush Raw started on a transport
    last,          \* the last operation of Raw: arguments, result, state before
    prevTxFailed,  \* the operation before it was a send or flush that
                   \* failed on the transport
    \* the send future, write by write
    spc,           \* "idle" | "writing"
    cur,           \* number of the packet of the send in progress (or last)
    sent,          \* bytes of that packet written so far
    stream,        \* every byte written to a transport, in order
    \* PacketDecoder
    dec,           \* the decoder: its body slice and its position
    dlast,         \* the last operation on the decoder and what it returned
    \* BodyReader
    br,            \* the reader: its budget and the bytes left in its stream
    blast,         \* the last operation on the reader and what it returned
    \* the packet whose header the receiver is given
    vbi,           \* its remaining length and the bytes of its length field
    \* the abort future
    apc,           \* "idle" | "writing"
    aloc,          \* its locals: the transport taken out and the reason code
    disc           \* DISCONNECT write attempts since the last set_net (ghost)

rxvars == <<header, buf, initialized, pc, i, res, rx, cancelAt, returned,
            hdrCount, hdrEnd, tokens, firstTokenEnd>>
rawvars == <<n, wire, last, prevTxFailed>>
txvars == <<spc, cur, sent, stream>>
decvars == <<dec, dlast>>
bodyvars == <<br, blast>>
vbivars == <<vbi>>
abortvars == <<apc, aloc, disc>>
vars == <<rxvars, rawvars, txvars, decvars, bodyvars, vbivars, abortvars>>

NoRes == [kind |-> "None", err |-> "", header |-> NoHeader]
OkRes(h) == [kind |-> "Ok", err |-> "", header |-> h]
ErrRes(e) == [kind |-> "Err", err |-> e, header |-> NoHeader]
PanicRes == [kind |-> "Panic", err |-> "", header |-> NoHeader]
CancelRes == [kind |-> "Cancelled", err |-> "", header |-> NoHeader]
\* into_decoder built a decoder from the token of header h
DecoderRes(h) == [kind |-> "Decoder", err |-> "", header |-> h]
\* a debug assertion of into_decoder failed
AssertRes == [kind |-> "Panic", err |-> "assert", header |-> NoHeader]

\* PacketReceiver::new
ReceiverInit ==
    /\ header = NoHeader
    /\ buf = [k \in 0..(BufLen - 1) |-> 0]
    /\ initialized = 0
    /\ pc = "idle"
    /\ i = 0
    /\ res = NoRes
    /\ rx = <<>>
    /\ cancelAt = {}
    /\ returned = FALSE
    /\ hdrCount = 0
    /\ hdrEnd = 0
    /\ tokens = 0
    /\ firstTokenEnd = 0

\* ------------------------------------------------- PacketReceiver::poll
\* a variant of the loop pass that leaves the last length byte out of the
\* remaining length
try_read_header_byte_short(h, bf, init, idx, b) ==
    LET bf1 == [bf EXCEPT ![idx] = b]
        byte == bf1[idx]
    IN  IF idx = 0
        THEN IF ~from_type_and_flags_ok(byte)
             THEN [header |-> h, buf |-> bf1, initialized |-> 0,
                   ret |-> "InvalidPacketType", done |-> FALSE]
             ELSE [header |-> h, buf |-> bf1, initialized |-> init + 1,
                   ret |-> "continue", done |-> FALSE]
        ELSE IF byte >= ContinuationBit
             THEN IF idx = MaxHeaderIndex
                  THEN [header |-> h, buf |-> bf1, initialized |-> 0,
                        ret |-> "InvalidVarByteInt", done |-> FALSE]
                  ELSE [header |-> h, buf |-> bf1, initialized |-> init + 1,
                        ret |-> "continue", done |-> FALSE]
             ELSE [header |-> SomeHeader(bf1[0], from_slice_unchecked(bf1, idx - 1)),
                   buf |-> bf1, initialized |-> 0,
                   ret |-> "continue", done |-> TRUE]

\* One pass of the body of the loop of try_read_header after the one-byte
\* read into buf[idx] returned 1: the new receiver fields and how the pass
\* ends ("continue" is the next loop iteration; a completed header does not
\* leave the loop either).
try_read_header_byte(h, bf, init, idx, b) ==
    LET bf1 == [bf EXCEPT ![idx] = b]
        byte == bf1[idx]
    IN  IF idx = 0
        THEN IF ~from_type_and_flags_ok(byte)
             THEN [header |-> h, buf |-> bf1, initialized |-> 0,
                   ret |-> "InvalidPacketType", done |-> FALSE]
             ELSE [header |-> h, buf |-> bf1, initialized |-> init + 1,
                   ret |-> "continue", done |-> FALSE]
        ELSE IF byte >= ContinuationBit
             THEN IF idx = MaxHeaderIndex
                  THEN [header |-> h, buf |-> bf1, initialized |-> 0,
                        ret |-> "InvalidVarByteInt", done |-> FALSE]
                  ELSE [header |-> h, buf |-> bf1, initialized |-> init + 1,
                        ret |-> "continue", done |-> FALSE]
             ELSE [header |-> SomeHeader(bf1[0], from_slice_unchecked(bf1, idx)),
                   buf |-> bf1, initialized |-> 0,
                   ret |-> "continue", done |-> TRUE]

\* The head of the loop of try_read_header: `i > 4` is unreachable_unchecked.
HeaderLoopTop(init) == IF init > MaxHeaderIndex THEN "ub" ELSE "hdr_read"

\* a variant of the step after the header that returns the token as soon as
\* the body fits into the buffer
BodyPhaseEager(h, init) ==
    IF h.remaining_len > BufLen THEN "BufferExceeded"
    ELSE "Ok"

\* poll after the header: the capacity check and the head of the body loop.
BodyPhase(h, init) ==
    IF h.remaining_len > BufLen THEN "BufferExceeded"
    ELSE IF init = h.remaining_len THEN "Ok"
    ELSE IF init > h.remaining_len THEN "Panic"   \* slice start > slice end
    ELSE "body_read"

\* A variant of poll that restarts header assembly on entry.
PollStartRestart ==
    /\ pc = "idle"
    /\ IF ~header.some
       THEN /\ initialized' = 0
            /\ i' = 0
            /\ pc' = "hdr_read"
            /\ res' = NoRes
            /\ UNCHANGED <<returned, tokens, firstTokenEnd>>
       ELSE LET ph == BodyPhase(header, initialized) IN
            /\ pc' = IF ph = "body_read" THEN "body_read" ELSE "idle"
            /\ res' = CASE ph = "body_read" -> NoRes
                        [] ph = "Ok" -> OkRes(header)
                        [] ph = "Panic" -> PanicRes
                        [] OTHER -> ErrRes(ph)
            /\ returned' = (returned \/ ph # "body_read")
            /\ tokens' = IF ph = "Ok" THEN Min(tokens + 1, 2) ELSE tokens
            /\ firstTokenEnd' = IF ph = "Ok" /\ tokens = 0 THEN Len(rx)
                                ELSE firstTokenEnd
            /\ UNCHANGED <<initialized, i>>
    /\ UNCHANGED <<header, buf, rx, cancelAt, hdrCount, hdrEnd, rawvars, txvars, decvars, bodyvars, vbivars, abortvars>>

\* poll is called: up to its first await, or its return.
PollStart ==
    /\ pc = "idle"
    /\ IF ~header.some
       THEN /\ i' = initialized
            /\ pc' = HeaderLoopTop(initialized)
            /\ res' = NoRes
            /\ UNCHANGED <<returned, tokens, firstTokenEnd>>
       ELSE LET ph == BodyPhase(header, initialized) IN
            /\ pc' = IF ph = "body_read" THEN "body_read" ELSE "idle"
            /\ res' = CASE ph = "body_read" -> NoRes
                        [] ph = "Ok" -> OkRes(header)
                        [] ph = "Panic" -> PanicRes
                        [] OTHER -> ErrRes(ph)
            /\ returned' = (returned \/ ph # "body_read")
            /\ tokens' = IF ph = "Ok" THEN Min(tokens + 1, 2) ELSE tokens
            /\ firstTokenEnd' = IF ph = "Ok" /\ tokens = 0 THEN Len(rx)
                                ELSE firstTokenEnd
            /\ UNCHANGED i
    /\ UNCHANGED <<header, buf, initialized, rx, cancelAt, hdrCount, hdrEnd,
                   rawvars, txvars, decvars, bodyvars, vbivars, abortvars>>

\* The one-byte read of try_read_header returns 1 with byte b: the rest of
\* that pass of the loop.
HeaderStep(b) ==
    /\ pc = "hdr_read"
    /\ LET s == try_read_header_byte(header, buf, initialized, i, b) IN
        /\ header' = s.header
        /\ buf' = s.buf
        /\ initialized' = s.initialized
        /\ rx' = Append(rx, b)
        /\ hdrCount' = IF s.done THEN Min(hdrCount + 1, 2) ELSE hdrCount
        /\ hdrEnd' = IF s.done THEN Len(rx) + 1 ELSE hdrEnd
        /\ IF s.ret = "continue"
           THEN /\ i' = s.initialized
                /\ pc' = HeaderLoopTop(s.initialized)
                /\ UNCHANGED <<res, returned>>
           ELSE /\ pc' = "idle"
                /\ res' = ErrRes(s.ret)
                /\ returned' = TRUE
                /\ UNCHANGED i
    /\ UNCHANGED <<cancelAt, tokens, firstTokenEnd, rawvars, txvars, decvars, bodyvars, vbivars, abortvars>>

\* The transport delivers byte b to the one-byte read of try_read_header.
HeaderByte(b) ==
    /\ Len(rx) < MaxBytes
    /\ HeaderStep(b)

\* The one-byte read of try_read_header returns 0 (EOF) or fails.
HeaderReadFails(e) ==
    /\ pc = "hdr_read"
    /\ pc' = "idle"
    /\ res' = ErrRes(e)
    /\ returned' = TRUE
    /\ UNCHANGED <<header, buf, initialized, i, rx, cancelAt, hdrCount,
                   hdrEnd, tokens, firstTokenEnd, rawvars, txvars, decvars, bodyvars, vbivars, abortvars>>

\* buf[from..from+Len(s)) := s
Fill(bf, from, s) ==
    [k \in 0..(BufLen - 1) |->
        IF k >= from /\ k < from + Len(s) THEN s[k - from + 1] ELSE bf[k]]

\* The read into buf[initialized..remaining_len] returns Len(s) >= 1 bytes.
BodyBytes(s) ==
    /\ pc = "body_read"
    /\ Len(s) >= 1
    /\ Len(s) <= header.remaining_len - initialized
    /\ Len(rx) + Len(s) <= MaxBytes
    /\ buf' = Fill(buf, initialized, s)
    /\ initialized' = initialized + Len(s)
    /\ rx' = rx \o s
    /\ IF initialized + Len(s) = header.remaining_len
       THEN /\ pc' = "idle"
            /\ res' = OkRes(header)
            /\ returned' = TRUE
            /\ tokens' = Min(tokens + 1, 2)
            /\ firstTokenEnd' = IF tokens = 0 THEN Len(rx) + Len(s)
                                ELSE firstTokenEnd
       ELSE /\ pc' = "body_read"
            /\ UNCHANGED <<res, returned, tokens, firstTokenEnd>>
    /\ UNCHANGED <<header, i, cancelAt, hdrCount, hdrEnd, rawvars, txvars, decvars, bodyvars, vbivars, abortvars>>

\* The body read returns 0 (EOF) or fails.
BodyReadFails(e) ==
    /\ pc = "body_read"
    /\ pc' = "idle"
    /\ res' = ErrRes(e)
    /\ returned' = TRUE
    /\ UNCHANGED <<header, buf, initialized, i, rx, cancelAt, hdrCount,
                   hdrEnd, tokens, firstTokenEnd, rawvars, txvars, decvars, bodyvars, vbivars, abortvars>>

\* The poll future is dropped at an await point: its locals are gone, the
\* fields of the receiver stay. Every await of poll is a read on the
\* transport; a read that is dropped while pending has taken no byte.
Cancel ==
    /\ pc \in {"hdr_read", "body_read"}
    /\ pc' = "idle"
    /\ i' = 0
    /\ res' = CancelRes
    /\ cancelAt' = IF returned THEN cancelAt ELSE cancelAt \cup {Len(rx)}
    /\ UNCHANGED <<header, buf, initialized, rx, returned, hdrCount, hdrEnd,
                   tokens, firstTokenEnd, rawvars, txvars, decvars, bodyvars, vbivars, abortvars>>

\* PacketReceiver::into_decoder(token) with the token of the poll that just
\* returned: the two debug assertions panic in a build that checks them and
\* are absent otherwise; the decoder is built over buf[..initialized].
IntoDecoder(checked) ==
    /\ pc = "idle"
    /\ res.kind = "Ok"
    /\ res' = IF checked /\ ~(/\ header.some
                              /\ res.header = header
                              /\ res.header.remaining_len = initialized)
              THEN AssertRes
              ELSE DecoderRes(res.header)
    /\ UNCHANGED <<header, buf, initialized, pc, i, rx, cancelAt, returned,
                   hdrCount, hdrEnd, tokens, firstTokenEnd, rawvars, txvars, decvars, bodyvars, vbivars, abortvars>>

\* ------------------------------------------------ reference: one-shot parse
\* The fixed header at the front of a byte sequence, read in one
\* uninterrupted pass: the index of the first length byte below 128 and the
\* sum of the seven-bit groups weighted by powers of 128.
RECURSIVE FirstLengthEnd(_, _)
FirstLengthEnd(s, k) ==
    IF k > Len(s) THEN 0
    ELSE IF s[k] < 128 THEN k
    ELSE FirstLengthEnd(s, k + 1)

HeaderEndIdx(s) == FirstLengthEnd(s, 2)

RECURSIVE SumGroups(_, _, _)
SumGroups(s, j, k) ==
    IF j > k THEN 0
    ELSE (s[j] % 128) * Pow128(j - 2) + SumGroups(s, j + 1, k)

RefHeader(s) == SomeHeader(s[1], SumGroups(s, 2, HeaderEndIdx(s)))

\* buf[0..len) as a sequence
BufPrefix(len) == [k \in 1..len |-> buf[k - 1]]

\* ------------------------------------------------------------------ claims
\* Every byte taken from the transport is either part of the kept header or
\* stored in buf[0..initialized).
Accounted ==
    IF header.some
    THEN /\ HeaderEndIdx(rx) > 0
         /\ header = RefHeader(rx)
         /\ SubSeq(rx, HeaderEndIdx(rx) + 1, Len(rx)) = BufPrefix(initialized)
    ELSE rx = BufPrefix(initialized)

\* C1: when a poll is cancelled (and no poll has returned yet), every byte
\* taken from the transport so far is stored in the buffer and counted in
\* `initialized`, and a completed header is kept: no byte is lost.
C1_CancelKeepsEveryByte ==
    (pc = "idle" /\ res = CancelRes /\ ~returned) => Accounted

C3_TokenBodyIsTransportBody ==
    (pc = "idle" /\ res.kind = "Ok") =>
        /\ initialized = res.header.remaining_len
        /\ BufPrefix(res.header.remaining_len)
             = SubSeq(rx, hdrEnd + 1, hdrEnd + res.header.remaining_len)

\* C4: once the first length byte below 128 has completed the header, the
\* same poll stops assembling the header: it never awaits another header
\* byte while a header is stored.
C4_HeaderCompletionEndsAssembly ==
    header.some => pc # "hdr_read"

\* C5: the second of two consecutive successful polls returns the next
\* packet: it has taken a new fixed header (two bytes at least) from the
\* transport after the first token.
C5_SecondTokenIsNextPacket ==
    (pc = "idle" /\ res.kind = "Ok" /\ tokens = 2) =>
        Len(rx) >= firstTokenEnd + 2

ReadErrors == {"EOF"} \cup {"Read:" \o k : k \in ErrorKinds}

Chunks == UNION {[1..len -> Bytes] : len \in 1..MaxChunk}

\* ---------------------------------------------------------------- NetState
Transports == {1, 2}
NoNet == 0
ReasonCodes == {"MalformedPacket", "ProtocolError"}
NoReason == "None"

Ok(t) == [tag |-> "Ok", net |-> t, rc |-> NoReason]
Faulted(t, r) == [tag |-> "Faulted", net |-> t, rc |-> r]
Terminated == [tag |-> "Terminated", net |-> NoNet, rc |-> NoReason]

is_ok(s) == s.tag = "Ok"

\* a variant of replace that keeps the reason code of a faulted connection
replace_keeps_fault(s, net) ==
    IF s.tag = "Faulted" THEN Faulted(net, s.rc) ELSE Ok(net)

replace(s, net) == Ok(net)

\* a variant of get that hands out the transport of a faulted connection too
get_faulted_too(s) ==
    IF s.tag \in {"Ok", "Faulted"} THEN [ok |-> TRUE, net |-> s.net]
    ELSE [ok |-> FALSE, net |-> NoNet]

get(s) ==
    IF s.tag = "Ok" THEN [ok |-> TRUE, net |-> s.net]
    ELSE [ok |-> FALSE, net |-> NoNet]

get_reason_code(s) == IF s.tag = "Faulted" THEN s.rc ELSE NoReason

\* a variant of fail that stores the reason code when no transport is held
fail_without_transport(s, reason_code) ==
    IF s.tag \in {"Ok", "Faulted"} THEN Faulted(s.net, reason_code)
    ELSE [tag |-> "Faulted", net |-> NoNet, rc |-> reason_code]

\* a variant of fail that keeps the reason code of a faulted connection
fail_keeps_oldest(s, reason_code) ==
    IF s.tag = "Ok" THEN Faulted(s.net, reason_code)
    ELSE IF s.tag = "Faulted" THEN s
    ELSE Terminated

\* a variant of fail that clears the fault of a faulted connection
fail_clears_fault(s, reason_code) ==
    IF s.tag = "Ok" THEN Faulted(s.net, reason_code)
    ELSE IF s.tag = "Faulted" THEN Ok(s.net)
    ELSE Terminated

fail(s, reason_code) ==
    IF s.tag \in {"Ok", "Faulted"} THEN Faulted(s.net, reason_code)
    ELSE Terminated

\* a variant of terminate that hands out the transport of an Ok connection
\* only
terminate_drops_faulted(s) ==
    [n |-> Terminated,
     net |-> IF s.tag = "Ok" THEN s.net ELSE NoNet]

\* a variant of terminate that hands out the transport and leaves the
\* state as it was
terminate_keeps_state(s) ==
    [n |-> s,
     net |-> IF s.tag \in {"Ok", "Faulted"} THEN s.net ELSE NoNet]

\* the state left behind and the transport handed out
terminate(s) ==
    [n |-> Terminated,
     net |-> IF s.tag \in {"Ok", "Faulted"} THEN s.net ELSE NoNet]

\* a variant of close_with that takes a default reason code for None
close_with_default(s, reason_code) ==
    IF reason_code # NoReason THEN fail(s, reason_code)
    ELSE fail(s, "ProtocolError")

close_with(s, reason_code) ==
    IF reason_code # NoReason THEN fail(s, reason_code)
    ELSE terminate(s).n

\* impl From<TxError<E>> for Error
TxErrorIntoRaw(e) ==
    IF e = "WriteZero" THEN "Network:WriteZero" ELSE "Network:" \o e

\* handle_tx: a failed send or flush terminates right away, whatever the
\* error: the error for the caller and no reason code.
handle_tx(e) == [err |-> TxErrorIntoRaw(e), rc |-> NoReason]

\* a variant of with_net that leaves the state alone when f fails without a
\* reason code
with_net_keeps(s, out, me) ==
    LET g == get(s) IN
    IF ~g.ok THEN [n |-> s, io |-> FALSE, result |-> "Err", err |-> "Disconnected"]
    ELSE IF out = "Ok" THEN [n |-> s, io |-> TRUE, result |-> "Ok", err |-> ""]
    ELSE [n |-> IF me.rc # NoReason THEN fail(s, me.rc) ELSE s,
          io |-> TRUE, result |-> "Err", err |-> me.err]

\* NetState::with_net(f, m), `out` being what f(net).await gives and `me`
\* the value of m on f's error: the state afterwards, whether f ran on the
\* transport, and the result.
with_net(s, out, me) ==
    LET g == get(s) IN
    IF ~g.ok THEN [n |-> s, io |-> FALSE, result |-> "Err", err |-> "Disconnected"]
    ELSE IF out = "Ok" THEN [n |-> s, io |-> TRUE, result |-> "Ok", err |-> ""]
    ELSE [n |-> IF me.rc # NoReason THEN fail(s, me.rc) ELSE terminate(s).n,
          io |-> TRUE, result |-> "Err", err |-> me.err]

\* --------------------------------------------------------------------- Raw
\* what a write on the transport gives: TxError::Write(kind), WriteZero
WriteOutcomes == {"Ok", "WriteZero"} \cup ErrorKinds
FlushOutcomes == {"Ok"} \cup ErrorKinds
\* what the receiver, or the packet decoder, would report for the input
RecvInputs == {"Ok", "EOF", "InvalidPacketType"}
DecodeInputs == {"Ok", "MalformedPacket"}

Frame(t, kind, r, ok) == [net |-> t, kind |-> kind, rc |-> r, ok |-> ok]

Op(op, arg, result, err) ==
    [op |-> op, arg |-> arg, result |-> result, err |-> err, pre |-> n]

TxFailed(l) ==
    l.op \in {"send", "flush"} /\ l.result = "Err" /\ l.pre.tag = "Ok"

\* the locals of abort while it is not running
NoLocals == [net |-> NoNet, rc |-> NoReason]

\* Raw::new_disconnected
RawInit ==
    /\ n = Terminated
    /\ apc = "idle"
    /\ aloc = NoLocals
    /\ disc = 0
    /\ wire = <<>>
    /\ last = [op |-> "new", arg |-> "", result |-> "Ok", err |-> "",
               pre |-> Terminated]
    /\ prevTxFailed = FALSE

\* a variant of set_net that starts the receiver afresh for the new
\* transport
SetNetResetsReceiver(t, checked) ==
    /\ IF is_ok(n) /\ checked
       THEN /\ last' = Op("set_net", ToString(t), "Panic", "")
            /\ UNCHANGED <<n, disc, header, initialized>>
       ELSE /\ n' = replace(n, t)
            /\ last' = Op("set_net", ToString(t), "Ok", "")
            /\ disc' = 0
            /\ header' = NoHeader
            /\ initialized' = 0
    /\ prevTxFailed' = TxFailed(last)
    /\ UNCHANGED <<wire, buf, pc, i, res, rx, cancelAt, returned, hdrCount,
                   hdrEnd, tokens, firstTokenEnd, txvars, decvars, bodyvars,
                   vbivars, apc, aloc>>

\* Raw::set_net: the debug assertion panics in a build that checks it, and
\* is absent otherwise.
SetNet(t, checked) ==
    /\ IF is_ok(n) /\ checked
       THEN /\ last' = Op("set_net", ToString(t), "Panic", "")
            /\ UNCHANGED <<n, disc>>
       ELSE /\ n' = replace(n, t)
            /\ last' = Op("set_net", ToString(t), "Ok", "")
            /\ disc' = 0
    /\ prevTxFailed' = TxFailed(last)
    /\ UNCHANGED <<wire, rxvars, txvars, decvars, bodyvars, vbivars, apc, aloc>>

\* Raw::close_with
CloseWith(r) ==
    /\ n' = close_with(n, r)
    /\ last' = Op("close_with", r, "Ok", "")
    /\ prevTxFailed' = TxFailed(last)
    /\ UNCHANGED <<wire, rxvars, txvars, decvars, bodyvars, vbivars, abortvars>>

\* a variant of abort that reads the reason code after terminating
AbortTerminatesFirst(out, checked) ==
    /\ Len(wire) < MaxWire
    /\ IF is_ok(n) /\ checked
       THEN /\ last' = Op("abort", "", "Panic", "")
            /\ UNCHANGED <<n, wire, disc>>
       ELSE LET t == terminate(n)
                r == get_reason_code(t.n)
            IN  /\ n' = t.n
                /\ IF t.net # NoNet /\ r # NoReason
                   THEN /\ wire' = Append(wire, Frame(t.net, "disconnect", r, out = "Ok"))
                        /\ disc' = Min(disc + 1, 2)
                        /\ last' = IF out = "Ok"
                                   THEN Op("abort", "", "Ok", "")
                                   ELSE Op("abort", "", "Err", TxErrorIntoRaw(out))
                   ELSE /\ UNCHANGED <<wire, disc>>
                        /\ last' = IF t.net = NoNet /\ r # NoReason
                                   THEN Op("abort", "", "Panic", "unreachable")
                                   ELSE Op("abort", "", "Ok", "")
    /\ prevTxFailed' = TxFailed(last)
    /\ UNCHANGED <<rxvars, txvars, decvars, bodyvars, vbivars, apc, aloc>>

\* Raw::abort, `out` being what the write of the DISCONNECT packet gives
Abort(out, checked) ==
    /\ Len(wire) < MaxWire
    /\ IF is_ok(n) /\ checked
       THEN /\ last' = Op("abort", "", "Panic", "")
            /\ UNCHANGED <<n, wire, disc>>
       ELSE LET r == get_reason_code(n)
                t == terminate(n)
            IN  /\ n' = t.n
                /\ IF t.net # NoNet /\ r # NoReason
                   THEN /\ wire' = Append(wire, Frame(t.net, "disconnect", r, out = "Ok"))
                        /\ disc' = Min(disc + 1, 2)
                        /\ last' = IF out = "Ok"
                                   THEN Op("abort", "", "Ok", "")
                                   ELSE Op("abort", "", "Err", TxErrorIntoRaw(out))
                   ELSE /\ UNCHANGED <<wire, disc>>
                        /\ last' = IF t.net = NoNet /\ r # NoReason
                                   THEN Op("abort", "", "Panic", "unreachable")
                                   ELSE Op("abort", "", "Ok", "")
    /\ prevTxFailed' = TxFailed(last)
    /\ UNCHANGED <<rxvars, txvars, decvars, bodyvars, vbivars, apc, aloc>>

\* Raw::recv: the state is checked, then todo!() panics. `input` is what the
\* receiver would have met on the transport.
Recv(input) ==
    /\ LET g == get(n) IN
        last' = IF ~g.ok THEN Op("recv", input, "Err", "Disconnected")
                ELSE Op("recv", input, "Panic", "todo")
    /\ prevTxFailed' = TxFailed(last)
    /\ UNCHANGED <<n, wire, rxvars, txvars, decvars, bodyvars, vbivars, abortvars>>

\* Raw::decode: into_decoder, then todo!() panics. `input` is what the
\* decoder of the packet would have returned.
Decode(input) ==
    /\ last' = Op("decode", input, "Panic", "todo")
    /\ prevTxFailed' = TxFailed(last)
    /\ UNCHANGED <<n, wire, rxvars, txvars, decvars, bodyvars, vbivars, abortvars>>

\* a variant of send that tries the packet a second time when it failed
SendRetries(out) ==
    /\ Len(wire) < MaxWire
    /\ LET w == with_net(n, out, handle_tx(out))
           f == Frame(n.net, "packet", NoReason, out = "Ok")
       IN
        /\ n' = w.n
        /\ wire' = IF w.io
                   THEN IF out = "Ok" THEN Append(wire, f)
                        ELSE Append(Append(wire, f), f)
                   ELSE wire
        /\ last' = Op("send", "", w.result, w.err)
    /\ prevTxFailed' = TxFailed(last)
    /\ UNCHANGED <<rxvars, txvars, decvars, bodyvars, vbivars, abortvars>>

\* Raw::send, `out` being what packet.send(net) gives
Send(out) ==
    /\ Len(wire) < MaxWire
    /\ LET w == with_net(n, out, handle_tx(out)) IN
        /\ n' = w.n
        /\ wire' = IF w.io THEN Append(wire, Frame(n.net, "packet", NoReason, out = "Ok"))
                   ELSE wire
        /\ last' = Op("send", "", w.result, w.err)
    /\ prevTxFailed' = TxFailed(last)
    /\ UNCHANGED <<rxvars, txvars, decvars, bodyvars, vbivars, abortvars>>

\* Raw::flush, `out` being what net.flush() gives
Flush(out) ==
    /\ Len(wire) < MaxWire
    /\ LET w == with_net(n, out, handle_tx(out)) IN
        /\ n' = w.n
        /\ wire' = IF w.io THEN Append(wire, Frame(n.net, "flush", NoReason, out = "Ok"))
                   ELSE wire
        /\ last' = Op("flush", "", w.result, w.err)
    /\ prevTxFailed' = TxFailed(last)
    /\ UNCHANGED <<rxvars, txvars, decvars, bodyvars, vbivars, abortvars>>

\* ------------------------------------------------- send, write by write
\* no send has been started
SendInit ==
    /\ spc = "idle"
    /\ cur = 0
    /\ sent = 0
    /\ stream = <<>>

\* byte idx of packet pkt as written on transport t
WireByte(t, pkt, idx) == [net |-> t, pkt |-> pkt, idx |-> idx]

\* Raw::send is called: with_net up to f(net).await, or its early return
SendStart ==
    /\ spc = "idle"
    /\ LET g == get(n) IN
        IF ~g.ok
        THEN /\ last' = Op("send", "", "Err", "Disconnected")
             /\ prevTxFailed' = TxFailed(last)
             /\ UNCHANGED <<spc, cur, sent>>
        ELSE /\ cur < MaxSends
             /\ spc' = "writing"
             /\ cur' = cur + 1
             /\ sent' = 0
             /\ UNCHANGED <<last, prevTxFailed>>
    /\ UNCHANGED <<n, wire, stream, rxvars, decvars, bodyvars, vbivars, abortvars>>

\* one awaited write of packet.send(net) puts k more bytes of the packet on
\* the transport; with the last byte f(net) is Ok and with_net returns Ok
SendWrite(k) ==
    /\ spc = "writing"
    /\ k <= PacketLen - sent
    /\ stream' = stream \o [j \in 1..k |-> WireByte(n.net, cur, sent + j)]
    /\ sent' = sent + k
    /\ IF sent + k = PacketLen
       THEN /\ spc' = "idle"
            /\ last' = Op("send", "", "Ok", "")
            /\ prevTxFailed' = TxFailed(last)
       ELSE UNCHANGED <<spc, last, prevTxFailed>>
    /\ UNCHANGED <<n, wire, cur, rxvars, decvars, bodyvars, vbivars, abortvars>>

\* an awaited write of packet.send(net) fails: the Err arm of with_net
SendWriteFails(out) ==
    /\ spc = "writing"
    /\ out # "Ok"
    /\ LET w == with_net(n, out, handle_tx(out)) IN
        /\ n' = w.n
        /\ last' = Op("send", "", w.result, w.err)
    /\ spc' = "idle"
    /\ prevTxFailed' = TxFailed(last)
    /\ UNCHANGED <<wire, cur, sent, stream, rxvars, decvars, bodyvars, vbivars, abortvars>>

\* a variant of the cancellation in which dropping the send future
\* terminates the connection
SendCancelTerminates ==
    /\ spc = "writing"
    /\ spc' = "idle"
    /\ n' = terminate(n).n
    /\ last' = Op("send", "", "Cancelled", "")
    /\ prevTxFailed' = TxFailed(last)
    /\ UNCHANGED <<wire, cur, sent, stream, rxvars, decvars, bodyvars, vbivars, abortvars>>

\* the send future is dropped at f(net).await: nothing runs after the await,
\* the NetState and the bytes already written stay as they are
SendCancel ==
    /\ spc = "writing"
    /\ spc' = "idle"
    /\ last' = Op("send", "", "Cancelled", "")
    /\ prevTxFailed' = TxFailed(last)
    /\ UNCHANGED <<n, wire, cur, sent, stream, rxvars, decvars, bodyvars, vbivars, abortvars>>

NextSend ==
    \/ \E t \in Transports, checked \in BOOLEAN :
            spc = "idle" /\ SetNet(t, checked)
    \/ SendStart
    \/ \E k \in 1..PacketLen : SendWrite(k)
    \/ \E out \in WriteOutcomes : SendWriteFails(out)
    \/ SendCancel

\* ------------------------------------------------ receive-error handling
\* RxError<E> as converted in client/raw/err.rs
RxErrors ==
    {"Read:" \o k : k \in ErrorKinds}
        \cup {"Buffer", "InsufficientConstSpace", "UnexpectedEOF",
              "MalformedPacket", "ProtocolError", "InvalidTopicName"}

\* a variant of the conversion that gives the end of the stream a reason code
RxErrorIntoRawEofCode(e) ==
    CASE e \in {"Read:" \o k : k \in ErrorKinds} ->
            [err |-> "Network:" \o (CHOOSE k \in ErrorKinds : e = "Read:" \o k),
             rc |-> NoReason]
      [] e = "Buffer" ->
            [err |-> "Alloc", rc |-> "ImplementationSpecificError"]
      [] e = "InsufficientConstSpace" ->
            [err |-> "ConstSpace", rc |-> "ImplementationSpecificError"]
      [] e = "UnexpectedEOF" ->
            [err |-> "Network:NotConnected", rc |-> "UnspecifiedError"]
      [] e = "MalformedPacket" ->
            [err |-> "Server", rc |-> "MalformedPacket"]
      [] e = "ProtocolError" ->
            [err |-> "Server", rc |-> "ProtocolError"]
      [] e = "InvalidTopicName" ->
            [err |-> "Server", rc |-> "TopicNameInvalid"]

\* impl From<RxError<E>> for (Error, Option<ReasonCode>)
RxErrorIntoRaw(e) ==
    CASE e \in {"Read:" \o k : k \in ErrorKinds} ->
            [err |-> "Network:" \o (CHOOSE k \in ErrorKinds : e = "Read:" \o k),
             rc |-> NoReason]
      [] e = "Buffer" ->
            [err |-> "Alloc", rc |-> "ImplementationSpecificError"]
      [] e = "InsufficientConstSpace" ->
            [err |-> "ConstSpace", rc |-> "ImplementationSpecificError"]
      [] e = "UnexpectedEOF" ->
            [err |-> "Network:NotConnected", rc |-> NoReason]
      [] e = "MalformedPacket" ->
            [err |-> "Server", rc |-> "MalformedPacket"]
      [] e = "ProtocolError" ->
            [err |-> "Server", rc |-> "ProtocolError"]
      [] e = "InvalidTopicName" ->
            [err |-> "Server", rc |-> "TopicNameInvalid"]

\* Raw::handle_rx of continuous.rs: the error is converted, the reason code
\* (if any) is stored with fail, the connection is terminated otherwise, and
\* the converted error is returned.
handle_rx(s, e) ==
    LET c == RxErrorIntoRaw(e) IN
    [n |-> IF c.rc # NoReason THEN fail(s, c.rc) ELSE terminate(s).n,
     err |-> c.err]

\* a receive error e is handed to handle_rx
HandleRx(e) ==
    /\ LET h == handle_rx(n, e) IN
        /\ n' = h.n
        /\ last' = Op("handle_rx", e, "Err", h.err)
    /\ prevTxFailed' = TxFailed(last)
    /\ UNCHANGED <<wire, rxvars, txvars, decvars, bodyvars, vbivars, abortvars>>

NextRx ==
    \/ \E t \in Transports, checked \in BOOLEAN : SetNet(t, checked)
    \/ \E e \in RxErrors : HandleRx(e)
    \/ \E out \in WriteOutcomes, checked \in BOOLEAN : Abort(out, checked)

NextRaw ==
    \/ \E t \in Transports, checked \in BOOLEAN : SetNet(t, checked)
    \/ \E r \in ReasonCodes \cup {NoReason} : CloseWith(r)
    \/ \E out \in WriteOutcomes, checked \in BOOLEAN : Abort(out, checked)
    \/ \E input \in RecvInputs : Recv(input)
    \/ \E input \in DecodeInputs : Decode(input)
    \/ \E out \in WriteOutcomes : Send(out)
    \/ \E out \in FlushOutcomes : Flush(out)


\* ------------------------------------------------------------ claims on Raw
NetworkErrors == {"Network:" \o k : k \in ErrorKinds \cup {"WriteZero"}}

\* C6: send, flush and recv in state Faulted or Terminated fail with
\* Disconnected, start no operation on a transport and leave the NetState
\* and the receiver as they were.
C6_GatedWhenNotOk ==
    [][(last'.op \in {"send", "flush", "recv"} /\ ~is_ok(n)) =>
         /\ last'.result = "Err"
         /\ last'.err = "Disconnected"
         /\ n' = n
         /\ wire' = wire
         /\ <<header, buf, initialized>>' = <<header, buf, initialized>>]_vars

\* a send was refused in state Faulted after traffic on the transport
C6_Witness ==
    /\ last.op = "send"
    /\ last.pre.tag = "Faulted"
    /\ last.err = "Disconnected"
    /\ n = last.pre
    /\ wire # <<>>

\* C7: a send or flush that fails on the transport in state Ok leaves the
\* state Terminated, the transport released; an abort right after it writes
\* no DISCONNECT and returns Ok.
C7_TxFailureTerminates ==
    [][/\ (last'.op \in {"send", "flush"} /\ is_ok(n) /\ last'.result = "Err") =>
            /\ n' = Terminated
            /\ last'.err \in NetworkErrors
       /\ (last'.op = "abort" /\ TxFailed(last)) =>
            /\ wire' = wire
            /\ last'.result = "Ok"
            /\ n' = Terminated]_vars

\* an abort returned Ok right after a failed send, and nothing but the
\* failed packet was put on a transport
C7_Witness ==
    /\ prevTxFailed
    /\ last.op = "abort"
    /\ last.result = "Ok"
    /\ n = Terminated
    /\ Len(wire) = 1
    /\ wire[1].kind = "packet" /\ ~wire[1].ok

\* C8: a decode that fails on a malformed packet in state Ok leaves the state
\* Faulted(t, MalformedPacket) with the transport t retained.
C8_MalformedDecodeFaults ==
    (last.op = "decode" /\ last.arg = "MalformedPacket" /\ last.pre.tag = "Ok") =>
        n = Faulted(last.pre.net, "MalformedPacket")

\* C9: when recv fails inside the receiver the state is updated before the
\* error is returned: Terminated for a read error or EOF, Faulted with the
\* transport retained for a protocol error.
C9_RecvFailureUpdatesState ==
    (last.op = "recv" /\ last.pre.tag = "Ok" /\ last.arg # "Ok") =>
        IF last.arg = "EOF" THEN n = Terminated
        ELSE n.tag = "Faulted" /\ n.net = last.pre.net

\* C10: abort in Faulted(t, r) writes one DISCONNECT carrying r to t and
\* leaves Terminated whether the write succeeds or fails, a failure being
\* returned as a network error; abort in Terminated writes nothing, stays
\* Terminated and returns Ok.
C10_AbortWritesOneDisconnect ==
    [][/\ (last'.op = "abort" /\ n.tag = "Faulted") =>
            /\ Len(wire') = Len(wire) + 1
            /\ SubSeq(wire', 1, Len(wire)) = wire
            /\ LET f == wire'[Len(wire')] IN
                /\ f.net = n.net /\ f.kind = "disconnect" /\ f.rc = n.rc
                /\ f.ok <=> last'.result = "Ok"
                /\ ~f.ok <=> (last'.result = "Err" /\ last'.err \in NetworkErrors)
            /\ n' = Terminated
       /\ (last'.op = "abort" /\ n.tag = "Terminated") =>
            /\ wire' = wire
            /\ n' = Terminated
            /\ last'.result = "Ok"]_vars

\* an abort in Faulted failed to write its DISCONNECT and left Terminated
C10_Witness ==
    /\ last.op = "abort"
    /\ last.pre.tag = "Faulted"
    /\ last.result = "Err"
    /\ n = Terminated
    /\ wire # <<>>
    /\ wire[Len(wire)] = Frame(last.pre.net, "disconnect", last.pre.rc, FALSE)

\* C11: in every state reached by set_net, close_with, send, flush, recv,
\* decode and abort a reason code is held only together with a transport:
\* get_reason_code is Some only in Faulted, which holds a transport;
\* Terminated holds neither; Ok holds a transport and no reason code; and
\* abort never runs its (None, Some(_)) arm.
C11_ReasonCodeOnlyWithTransport ==
    /\ get_reason_code(n) # NoReason => (n.tag = "Faulted" /\ n.net \in Transports)
    /\ n.tag = "Faulted" => (n.net \in Transports /\ n.rc # NoReason)
    /\ n.tag = "Terminated" => (n.net = NoNet /\ n.rc = NoReason)
    /\ n.tag = "Ok" => (n.net \in Transports /\ n.rc = NoReason)
    /\ ~(last.op = "abort" /\ last.err = "unreachable")

\* an abort took the reason code and the transport out of a faulted
\* connection, delivered the DISCONNECT and left neither behind
C11_Witness ==
    /\ last.op = "abort"
    /\ last.pre.tag = "Faulted"
    /\ last.result = "Ok"
    /\ get_reason_code(last.pre) # NoReason
    /\ get_reason_code(n) = NoReason
    /\ n.net = NoNet

\* C12: fail(r), reached through close_with(Some(r)): from Ok(t) or
\* Faulted(t, r0) the state becomes Faulted(t, r), the same transport and
\* the newest reason code; from Terminated it stays Terminated and r is not
\* stored.
C12_FailKeepsTransportNewestCode ==
    (last.op = "close_with" /\ last.arg # NoReason) =>
        IF last.pre.tag = "Terminated"
        THEN n = Terminated /\ get_reason_code(n) = NoReason
        ELSE /\ n.tag = "Faulted"
             /\ n.net = last.pre.net
             /\ n.rc = last.arg

\* a faulted connection was failed again with a different reason code
C12_Witness ==
    /\ last.op = "close_with"
    /\ last.arg # NoReason
    /\ last.pre.tag = "Faulted"
    /\ last.pre.rc # last.arg
    /\ n = Faulted(last.pre.net, last.arg)

\* C13: terminate(), reached through close_with(None), abort and a failed
\* send or flush: from Ok(t) or Faulted(t, _) it hands out t and leaves
\* Terminated; from Terminated it hands out nothing and stays Terminated, so
\* a second terminate() in a row changes nothing and returns no transport.
C13_TerminateReleasesOnce ==
    /\ (last.op = "close_with" /\ last.arg = NoReason) => n = Terminated
    /\ (last.op = "abort" /\ last.result # "Panic") =>
            /\ n = Terminated
            /\ last.pre.tag = "Faulted" =>
                    (wire # <<>> /\ wire[Len(wire)].net = last.pre.net)
    /\ LET t == terminate(n) IN
            /\ t.n = Terminated
            /\ t.net = (IF n.tag = "Terminated" THEN NoNet ELSE n.net)
            /\ (n.tag # "Terminated") => t.net \in Transports
            /\ terminate(t.n) = [n |-> Terminated, net |-> NoNet]

\* two terminate() in a row: the one of a failed flush, then the one of
\* abort, which found no transport and wrote nothing
C13_Witness ==
    /\ prevTxFailed
    /\ last.op = "abort"
    /\ last.pre = Terminated
    /\ last.result = "Ok"
    /\ n = Terminated
    /\ Len(wire) = 1
    /\ wire[1].kind = "flush" /\ ~wire[1].ok

\* C14: when set_net(t) is called on a fresh Raw or right after an operation
\* returned an error, the state is not Ok, so the assertion of set_net holds;
\* and set_net(t) on a state that is not Ok leaves Ok(t) with no reason code.
C14_SetNetInstallsOnNotOk ==
    [][(last'.op = "set_net") =>
         /\ (last.op = "new" \/ last.result = "Err") => ~is_ok(n)
         /\ ~is_ok(n) =>
              /\ last'.result = "Ok"
              /\ \E t \in Transports :
                    ToString(t) = last'.arg /\ n' = Ok(t)
              /\ get_reason_code(n') = NoReason]_vars

\* a transport was installed right after a send failed on the old one
C14_Witness ==
    /\ last.op = "set_net"
    /\ prevTxFailed
    /\ last.pre = Terminated
    /\ last.result = "Ok"
    /\ n.tag = "Ok" /\ ToString(n.net) = last.arg
    /\ wire # <<>> /\ wire[Len(wire)].net # n.net

\* C15: no internal retry: whenever send, flush, recv or decode returns an
\* error the NetState afterwards is Faulted or Terminated, never Ok, and the
\* operation on the transport was started once (in state Ok) or not at all
\* (refused in a state that is not Ok).
C15_NoInternalRetry ==
    [][(last'.op \in {"send", "flush", "recv", "decode"} /\ last'.result = "Err") =>
         /\ ~is_ok(n')
         /\ IF is_ok(n)
            THEN /\ wire' = Append(wire, wire'[Len(wire')])
                 /\ ~wire'[Len(wire')].ok
                 /\ wire'[Len(wire')].net = n.net
            ELSE wire' = wire]_vars

\* a flush failed on the transport after a packet had been sent on it: the
\* flush was started once and the connection is terminated
C15_Witness ==
    /\ last.op = "flush"
    /\ last.result = "Err"
    /\ last.pre.tag = "Ok"
    /\ n = Terminated
    /\ Len(wire) = 2
    /\ wire[1].kind = "packet" /\ wire[1].ok
    /\ wire[2].kind = "flush" /\ ~wire[2].ok

\* C17: a DISCONNECT is put on a transport only by abort and only in state
\* Faulted(t, r), on t and carrying r; an abort right after a failed send or
\* flush, after close_with(None) or after a recv that met the end of the
\* stream in state Ok writes nothing.
C17_DisconnectOnlyFromFaultedAbort ==
    [][/\ (wire' # wire /\ wire'[Len(wire')].kind = "disconnect") =>
            /\ last'.op = "abort"
            /\ n.tag = "Faulted"
            /\ wire' = Append(wire, Frame(n.net, "disconnect", n.rc,
                                          wire'[Len(wire')].ok))
            /\ n.rc # NoReason
       /\ (/\ last'.op = "abort"
           /\ \/ TxFailed(last)
              \/ (last.op = "close_with" /\ last.arg = NoReason)
              \/ (last.op = "recv" /\ last.arg = "EOF" /\ is_ok(last.pre))) =>
            wire' = wire]_vars

\* a DISCONNECT followed a delivered packet on the same transport, written
\* by an abort in state Faulted
C17_Witness ==
    /\ last.op = "abort"
    /\ last.pre.tag = "Faulted"
    /\ Len(wire) = 2
    /\ wire[1] = Frame(last.pre.net, "packet", NoReason, TRUE)
    /\ wire[2].kind = "disconnect"
    /\ wire[2].net = last.pre.net
    /\ wire[2].rc = last.pre.rc

\* C16: the conversion of a receive error, as applied by handle_rx in state
\* Ok(t): Read and UnexpectedEOF carry no reason code (the connection is
\* terminated); every protocol error carries one and the transport is
\* retained: MalformedPacket gives MalformedPacket, ProtocolError gives
\* ProtocolError, InvalidTopicName gives TopicNameInvalid, Buffer and
\* InsufficientConstSpace give ImplementationSpecificError.
C16_RxErrorClassification ==
    (last.op = "handle_rx" /\ is_ok(last.pre)) =>
        LET e == last.arg
            t == last.pre.net
        IN  CASE e \in {"Read:" \o k : k \in ErrorKinds} \cup {"UnexpectedEOF"} ->
                    n = Terminated /\ get_reason_code(n) = NoReason
              [] e = "MalformedPacket" -> n = Faulted(t, "MalformedPacket")
              [] e = "ProtocolError" -> n = Faulted(t, "ProtocolError")
              [] e = "InvalidTopicName" -> n = Faulted(t, "TopicNameInvalid")
              [] e \in {"Buffer", "InsufficientConstSpace"} ->
                    n = Faulted(t, "ImplementationSpecificError")
              [] OTHER -> FALSE

\* an invalid topic name faulted a connection that had been re-established
\* after a DISCONNECT
C16_Witness ==
    /\ last.op = "handle_rx"
    /\ last.arg = "InvalidTopicName"
    /\ is_ok(last.pre)
    /\ n = Faulted(last.pre.net, "TopicNameInvalid")
    /\ wire # <<>>

\* C18: send is not cancel-safe: a send cancelled in state Ok after some of
\* its writes leaves the NetState Ok and a strict prefix of its packet as the
\* last bytes on the transport, where the bytes of the next send follow it.
C18_CancelledSendLeavesPrefix ==
    (last.op = "send" /\ last.result = "Cancelled" /\ spc = "idle") =>
        /\ n = last.pre
        /\ is_ok(n)
        /\ sent < PacketLen
        /\ Len(stream) >= sent
        /\ \A j \in 1..sent :
              stream[Len(stream) - sent + j] = WireByte(n.net, cur, j)

\* the second send returned Ok and its whole packet is on the transport
\* right after a strict, non-empty prefix of the first packet
C18_Witness ==
    /\ last.op = "send" /\ last.result = "Ok"
    /\ is_ok(n)
    /\ cur = 2
    /\ \E k \in 1..(PacketLen - 1) :
          /\ Len(stream) = k + PacketLen
          /\ \A j \in 1..k : stream[j] = WireByte(n.net, 1, j)
          /\ \A j \in 1..PacketLen : stream[k + j] = WireByte(n.net, 2, j)

\* C19: every token returned by poll, passed to into_decoder before any
\* further poll, meets the assertions of into_decoder (its header is the
\* stored header, its remaining_len equals initialized), and the decoder
\* built from it covers buf[0..remaining_len), all of it filled with bytes
\* taken from the transport: the last remaining_len bytes taken.
C19_TokenSatisfiesIntoDecoder ==
    /\ res # AssertRes
    /\ (pc = "idle" /\ res.kind \in {"Ok", "Decoder"}) =>
            /\ header.some
            /\ res.header = header
            /\ res.header.remaining_len = initialized
            /\ initialized <= BufLen
            /\ initialized <= Len(rx)
            /\ BufPrefix(initialized)
                 = SubSeq(rx, Len(rx) - initialized + 1, Len(rx))

\* a decoder was built over a body of two bytes
C19_Witness ==
    /\ pc = "idle"
    /\ res.kind = "Decoder"
    /\ res.header.remaining_len = 2
    /\ initialized = 2
    /\ BufPrefix(2) = SubSeq(rx, Len(rx) - 1, Len(rx))

\* C20: the index invariant of the receiver: at every pass of the header
\* loop initialized is in 0..=4, so the one-byte read is in bounds and the
\* unreachable_unchecked branch is never run; and whenever the body loop
\* runs, initialized <= remaining_len <= buf.len(), so the slice
\* buf[initialized..remaining_len] is well-formed.
C20_ReceiverIndexInvariant ==
    /\ pc # "ub"
    /\ pc = "hdr_read" => (initialized \in 0..MaxHeaderIndex /\ i = initialized)
    /\ pc = "body_read" =>
            (initialized <= header.remaining_len /\ header.remaining_len <= BufLen)
    /\ res # PanicRes

\* C21: for a valid type+flags byte t followed by a remaining length of k
\* bytes (1 <= k <= 4, the first k-1 of them >= 128, the last < 128) the
\* assembled header is {t, sum of (b_j mod 128) * 128^(j-1)}: 0x10 0x00
\* gives remaining_len 0, 0xD7 0xFF 0xFF 0xFF 0x7F gives type 13, flags 7
\* and remaining_len 268435455.
C21_HeaderValue ==
    (hdrCount = 1 /\ ~returned /\ hdrEnd = Len(rx)) =>
        LET k == Len(rx) - 1 IN
        /\ k \in 1..4
        /\ from_type_and_flags_ok(rx[1])
        /\ \A j \in 1..(k - 1) : rx[j + 1] >= 128
        /\ rx[k + 1] < 128
        /\ header.some
        /\ header.type_and_flags = rx[1]
        /\ header.remaining_len = SumGroups(rx, 2, k + 1)
        /\ rx = <<16, 0>> => header.remaining_len = 0
        /\ rx = <<215, 255, 255, 255, 127>> =>
                /\ header.type_and_flags \div 16 = 13
                /\ header.type_and_flags % 16 = 7
                /\ header.remaining_len = 268435455

\* the header 0xD7 0xFF 0xFF 0xFF 0x7F was assembled
C21_Witness ==
    /\ hdrCount = 1 /\ ~returned /\ hdrEnd = Len(rx)
    /\ rx = <<215, 255, 255, 255, 127>>
    /\ header = SomeHeader(215, 268435455)

\* C22: when poll has failed with InvalidPacketType on a byte that is no
\* valid type+flags byte, the receiver holds initialized == 0 and no header,
\* so that the next poll takes the next byte as a type+flags byte.
C22_InvalidTypeResetsReceiver ==
    (pc = "idle" /\ res = ErrRes("InvalidPacketType")) =>
        /\ initialized = 0
        /\ ~header.some

\* C23: when poll has failed with InvalidVarByteInt on a fifth header byte
\* with the continuation bit, the receiver holds initialized == 0 and no
\* header.
C23_InvalidLengthResetsReceiver ==
    (pc = "idle" /\ res = ErrRes("InvalidVarByteInt")) =>
        /\ initialized = 0
        /\ ~header.some

\* C24: once the completed header declares a remaining_len above the
\* capacity of the buffer, poll awaits no further read: no byte is taken
\* from the transport after the header.
C24_BufferExceededReadsNothing ==
    (header.some /\ header.remaining_len > BufLen) =>
        /\ pc \notin {"hdr_read", "body_read"}
        /\ Len(rx) = hdrEnd

HardErrors == {"InvalidPacketType", "InvalidVarByteInt", "BufferExceeded", "EOF"}

\* C25: after poll has returned a hard error (InvalidPacketType,
\* InvalidVarByteInt, BufferExceeded, or EOF in the header or in the body)
\* progress is discarded: initialized == 0 and no header is kept.
C25_HardErrorDiscardsProgress ==
    (pc = "idle" /\ res.kind = "Err" /\ res.err \in HardErrors) =>
        /\ initialized = 0
        /\ ~header.some

\* ------------------------------------------------------------------
\* PacketDecoder and the Readable implementations over it
\* ------------------------------------------------------------------

NoDecoder == [built |-> FALSE, buf |-> <<>>, pos |-> 0]

\* PacketDecoder::new: the body slice with the position at its start
PacketDecoderNew(body) == [built |-> TRUE, buf |-> body, pos |-> 0]

\* PacketDecoder::remaining_len
decoder_remaining_len(d) == Len(d.buf) - d.pos

\* the bytes of buf[from..to), positions counted from 0
Slice(b, from, to) == SubSeq(b, from + 1, to)

\* what an operation on the decoder returns, with the position it leaves
DecOk(pos, from, to, bytes) ==
    [ok |-> TRUE, err |-> "", pos |-> pos, from |-> from, to |-> to,
     bytes |-> bytes, num |-> 0, flag |-> FALSE]
DecErr(pos, e) ==
    [ok |-> FALSE, err |-> e, pos |-> pos, from |-> pos, to |-> pos,
     bytes |-> <<>>, num |-> 0, flag |-> FALSE]

\* a variant of take_bytes that refuses a request for all remaining bytes
take_bytes_strict(d, len) ==
    LET end == d.pos + len IN
    IF end >= Len(d.buf)
    THEN DecErr(d.pos, "InsufficientLen")
    ELSE DecOk(end, d.pos, end, Slice(d.buf, d.pos, end))

\* PacketDecoder::take_bytes
take_bytes(d, len) ==
    LET end == d.pos + len IN
    IF end > Len(d.buf)
    THEN DecErr(d.pos, "InsufficientLen")
    ELSE DecOk(end, d.pos, end, Slice(d.buf, d.pos, end))

\* a variant of skip that advances without looking at the length
skip_unchecked(d, len) ==
    LET end == d.pos + len IN
    DecOk(end, d.pos, end, <<>>)

\* PacketDecoder::skip
skip(d, len) ==
    LET end == d.pos + len IN
    IF end > Len(d.buf)
    THEN DecErr(d.pos, "InsufficientLen")
    ELSE DecOk(end, d.pos, end, <<>>)

\* the conversion of InsufficientLen into DecodeError, applied by `?` in
\* the Readable implementations
InsufficientLenIntoDecodeError == "MalformedPacket"

\* From<InsufficientLen> for RxError
InsufficientLenIntoRxError == "MalformedPacket"

\* a variant of the conversion that reports a malformed packet as a
\* protocol error
DecodeErrorIntoRxErrorProtocol(e) ==
    "ProtocolError"

\* From<DecodeError> for RxError
DecodeErrorIntoRxError(e) ==
    IF e = "MalformedPacket" THEN "MalformedPacket" ELSE "ProtocolError"

\* <[u8; N] as Readable>::read
read_array(d, N) ==
    LET t == take_bytes(d, N) IN
    IF t.ok THEN t ELSE DecErr(t.pos, InsufficientLenIntoDecodeError)

\* a variant of from_be_bytes that takes the first byte as the lowest
from_le_bytes(bytes) ==
    LET f[k \in 0..Len(bytes)] ==
            IF k = 0 THEN 0 ELSE 256 * f[k - 1] + bytes[Len(bytes) + 1 - k]
    IN f[Len(bytes)]

\* Self::from_be_bytes: the first byte is the highest
from_be_bytes(bytes) ==
    LET f[k \in 0..Len(bytes)] ==
            IF k = 0 THEN 0 ELSE 256 * f[k - 1] + bytes[k]
    IN f[Len(bytes)]

\* <[u8; N]>::read(read).map(Self::from_be_bytes)
read_uint(d, N) ==
    LET a == read_array(d, N) IN
    IF a.ok THEN [a EXCEPT !.num = from_be_bytes(a.bytes)] ELSE a

read_u8(d) == read_uint(d, 1)
read_u16(d) == read_uint(d, 2)
read_u32(d) == read_uint(d, 4)

\* a variant of the bool reader that takes every nonzero byte as true
read_bool_nonzero(d) ==
    LET u == read_u8(d) IN
    IF ~u.ok THEN u
    ELSE [u EXCEPT !.flag = (u.num # 0)]

\* <bool as Readable>::read
read_bool(d) ==
    LET u == read_u8(d) IN
    IF ~u.ok THEN u
    ELSE IF u.num = 0 THEN [u EXCEPT !.flag = FALSE]
    ELSE IF u.num = 1 THEN [u EXCEPT !.flag = TRUE]
    ELSE DecErr(u.pos, "MalformedPacket")

\* a variant of the binary reader that takes the length bytes as the
\* first two bytes of the value
read_binary_with_prefix(d) ==
    LET l == read_u16(d) IN
    IF ~l.ok THEN l
    ELSE LET t == take_bytes(d, l.num) IN
         IF t.ok THEN [t EXCEPT !.num = l.num]
         ELSE DecErr(t.pos, InsufficientLenIntoDecodeError)

\* <MqttBinary as Readable>::read: a u16 length, then that many bytes
read_binary(d) ==
    LET l == read_u16(d) IN
    IF ~l.ok THEN l
    ELSE LET t == take_bytes([d EXCEPT !.pos = l.pos], l.num) IN
         IF t.ok THEN [t EXCEPT !.num = l.num]
         ELSE DecErr(t.pos, InsufficientLenIntoDecodeError)

\* the validation of MqttString::try_from: no null character in the text
string_ok(bytes) == \A k \in 1..Len(bytes) : bytes[k] # 0

\* <MqttString as Readable>::read
read_string(d) ==
    LET b == read_binary(d) IN
    IF ~b.ok THEN b
    ELSE IF string_ok(b.bytes) THEN b
    ELSE DecErr(b.pos, "MalformedPacket")

\* sizes of the byte arrays read
ArraySizes == {3}

Bodies == UNION {[1..k -> DecBytes] : k \in 0..MaxBody} \cup ExampleBodies

NoDecOp ==
    [op |-> "none", len |-> 0, ok |-> TRUE, err |-> "", rxerr |-> "",
     pre |-> 0, from |-> 0, to |-> 0, bytes |-> <<>>, num |-> 0,
     flag |-> FALSE, prevTake |-> FALSE, prevTo |-> 0]

DecoderInit ==
    /\ dec = NoDecoder
    /\ dlast = NoDecOp

\* the record of an operation op(len) that returned r; rxerr is the error
\* the caller of the packet decoder sees after `?`
DecOp(op, len, r, rxerr) ==
    [op |-> op, len |-> len, ok |-> r.ok, err |-> r.err, rxerr |-> rxerr,
     pre |-> dec.pos, from |-> r.from, to |-> r.to, bytes |-> r.bytes,
     num |-> r.num, flag |-> r.flag,
     prevTake |-> (dlast.op = "take_bytes" /\ dlast.ok),
     prevTo |-> IF dlast.op = "take_bytes" /\ dlast.ok
                THEN dlast.to ELSE dlast.prevTo]

NewDecoder(body) ==
    /\ ~dec.built
    /\ dec' = PacketDecoderNew(body)
    /\ dlast' = [NoDecOp EXCEPT !.op = "new"]
    /\ UNCHANGED <<rxvars, rawvars, txvars, bodyvars, vbivars, abortvars>>

\* a call of take_bytes or skip by a packet's decode function
Untyped(op, len, r) ==
    /\ dec.built
    /\ dec' = [dec EXCEPT !.pos = r.pos]
    /\ dlast' = DecOp(op, len, r,
                      IF r.ok THEN "" ELSE InsufficientLenIntoRxError)
    /\ UNCHANGED <<rxvars, rawvars, txvars, bodyvars, vbivars, abortvars>>

\* a call of T::read by a packet's decode function
Typed(op, len, r) ==
    /\ dec.built
    /\ dec' = [dec EXCEPT !.pos = r.pos]
    /\ dlast' = DecOp(op, len, r,
                      IF r.ok THEN "" ELSE DecodeErrorIntoRxError(r.err))
    /\ UNCHANGED <<rxvars, rawvars, txvars, bodyvars, vbivars, abortvars>>

TakeBytes(len) == Untyped("take_bytes", len, take_bytes(dec, len))
Skip(len) == Untyped("skip", len, skip(dec, len))
ReadArray(N) == Typed("array", N, read_array(dec, N))
ReadU8 == Typed("u8", 1, read_u8(dec))
ReadU16 == Typed("u16", 2, read_u16(dec))
ReadU32 == Typed("u32", 4, read_u32(dec))
ReadBool == Typed("bool", 1, read_bool(dec))
ReadBinary == Typed("binary", 2, read_binary(dec))
ReadString == Typed("string", 2, read_string(dec))

NextDec ==
    \/ \E body \in Bodies : NewDecoder(body)
    \/ \E len \in 0..(MaxBody + 1) : TakeBytes(len)
    \/ \E len \in 0..(MaxBody + 1) : Skip(len)
    \/ \E N \in ArraySizes : ReadArray(N)
    \/ ReadU8
    \/ ReadU16
    \/ ReadU32
    \/ ReadBool
    \/ ReadBinary
    \/ ReadString

\* ------------------------------------------------------------------
\* Claims about the decoder
\* ------------------------------------------------------------------

\* C26: take_bytes(len) and skip(len) succeed exactly when len is at
\* most remaining_len(); on success the position advances by len and
\* take_bytes returns the bytes of buf[pos..pos+len); otherwise they
\* return InsufficientLen and leave the position unchanged.
C26_TakeAndSkip ==
    (dlast.op \in {"take_bytes", "skip"}) =>
        LET rem == Len(dec.buf) - dlast.pre IN
        /\ dlast.ok <=> dlast.len <= rem
        /\ dlast.ok =>
            /\ dec.pos = dlast.pre + dlast.len
            /\ dlast.op = "take_bytes" =>
                /\ dlast.from = dlast.pre
                /\ dlast.to = dlast.pre + dlast.len
                /\ dlast.bytes = [k \in 1..dlast.len |->
                                    dec.buf[dlast.pre + k]]
        /\ ~dlast.ok =>
            /\ dlast.err = "InsufficientLen"
            /\ dec.pos = dlast.pre

C26_Witness ==
    /\ dlast.op = "take_bytes" /\ dlast.ok
    /\ dlast.pre = 1 /\ dlast.len = 3 /\ Len(dec.buf) = 4
    /\ dec.pos = 4 /\ dlast.bytes = SubSeq(dec.buf, 2, 4)

\* C27: the position never decreases and stays within 0..buf.len(),
\* remaining_len() is buf.len() - pos, and the slices of successive
\* take_bytes calls are consecutive and do not overlap.
C27_PositionMonotone ==
    dec.built =>
        /\ 0 <= dec.pos /\ dec.pos <= Len(dec.buf)
        /\ decoder_remaining_len(dec) + dec.pos = Len(dec.buf)
        /\ dlast.pre <= dec.pos
        /\ (dlast.op = "take_bytes" /\ dlast.ok) =>
            /\ dlast.prevTo <= dlast.from
            /\ dlast.from <= dlast.to
            /\ dlast.prevTake => dlast.from = dlast.prevTo

C27_Witness ==
    /\ dlast.op = "take_bytes" /\ dlast.ok /\ dlast.prevTake
    /\ dlast.prevTo = 2 /\ dlast.from = 2 /\ dlast.to = 4
    /\ decoder_remaining_len(dec) = 0

TypedReads == {"array", "u8", "u16", "u32", "bool", "binary", "string"}

\* the number of bytes a typed read asks for at position pre of b
Needed(op, len, b, pre) ==
    IF op \in {"binary", "string"} /\ Len(b) - pre >= 2
    THEN 2 + 256 * b[pre + 1] + b[pre + 2]
    ELSE len

C29_BigEndianIntegers ==
    (dlast.op \in {"u8", "u16", "u32"} /\ dlast.ok) =>
        LET p == dlast.pre
            b == dec.buf IN
        /\ dec.pos = p + dlast.len
        /\ dlast.op = "u8" => dlast.num = b[p + 1]
        /\ dlast.op = "u16" => dlast.num = 256 * b[p + 1] + b[p + 2]
        /\ dlast.op = "u32" =>
            dlast.num = 16777216 * b[p + 1] + 65536 * b[p + 2]
                        + 256 * b[p + 3] + b[p + 4]
        /\ (dlast.op = "u16" /\ dlast.bytes = <<1, 2>>) => dlast.num = 258
        /\ (dlast.op = "u32" /\ dlast.bytes = <<1, 2, 3, 4>>) =>
            dlast.num = 16909060

C29_Witness ==
    /\ dlast.op = "u32" /\ dlast.ok /\ dec.buf = <<1, 2, 3, 4>>
    /\ dlast.pre = 0 /\ dec.pos = 4 /\ dlast.num = 16909060

\* C30: reading a bool consumes exactly one byte; 0 is false, 1 is true
\* and every other byte fails with MalformedPacket.
C30_BoolZeroOrOne ==
    (dlast.op = "bool" /\ Len(dec.buf) - dlast.pre >= 1) =>
        LET byte == dec.buf[dlast.pre + 1] IN
        /\ dec.pos = dlast.pre + 1
        /\ byte = 0 => (dlast.ok /\ dlast.flag = FALSE)
        /\ byte = 1 => (dlast.ok /\ dlast.flag = TRUE)
        /\ byte \notin {0, 1} =>
            (~dlast.ok /\ dlast.err = "MalformedPacket"
             /\ dlast.rxerr = "MalformedPacket")

C30_Witness ==
    /\ dlast.op = "bool" /\ ~dlast.ok /\ dlast.err = "MalformedPacket"
    /\ dlast.pre = 1 /\ dec.pos = 2 /\ dec.buf[2] = 2

\* C31: a binary is a big-endian u16 length L followed by L bytes; the
\* read returns exactly those L bytes of the body and advances the
\* position by 2 + L; 00 05 01 02 03 04 FF gives 01 02 03 04 FF.
C31_BinaryIsLengthThenBytes ==
    (dlast.op = "binary" /\ dlast.ok) =>
        LET p == dlast.pre
            L == 256 * dec.buf[p + 1] + dec.buf[p + 2] IN
        /\ dec.pos = p + 2 + L
        /\ dlast.from = p + 2 /\ dlast.to = p + 2 + L
        /\ dlast.bytes = [k \in 1..L |-> dec.buf[p + 2 + k]]
        /\ (dec.buf = <<0, 5, 1, 2, 3, 4, 255>> /\ p = 0) =>
            dlast.bytes = <<1, 2, 3, 4, 255>>

C31_Witness ==
    /\ dlast.op = "binary" /\ dlast.ok /\ dlast.pre = 0
    /\ dec.buf = <<0, 5, 1, 2, 3, 4, 255>>
    /\ decoder_remaining_len(dec) = 0
    /\ dlast.bytes = <<1, 2, 3, 4, 255>>

\* ------------------------------------------------------------------
\* BodyReader: the reader of a packet body straight from the stream
\* ------------------------------------------------------------------

\* the values of a usize wrap at this modulus (a 16-bit target, the
\* smallest usize there is)
UsizeModulus == 65536

\* the chunk size of BodyReader::skip
CHUNK_SIZE == 16

NoBodyReader == [made |-> FALSE, remaining_len |-> 0, stream |-> <<>>]

\* BodyReader::new over a stream that still holds the bytes s
BodyReaderNew(s, rl) == [made |-> TRUE, remaining_len |-> rl, stream |-> s]

\* Read::read of the stream: at most c bytes of what is asked for, 0
\* when the stream is exhausted
inner_read(s, want, c) == Min(Min(want, c), Len(s))

BrOk(b, k) == [ok |-> TRUE, err |-> "", n |-> k, b |-> b]
BrErr(b, e) == [ok |-> FALSE, err |-> e, n |-> 0, b |-> b]

\* a variant of BodyReader::read without the check of the budget
body_read_unchecked(b, buflen, c) ==
    LET len == Min(buflen, b.remaining_len)
        read == inner_read(b.stream, len, c) IN
    BrOk([b EXCEPT !.remaining_len = @ - read,
                   !.stream = SubSeq(@, read + 1, Len(@))], read)

\* <BodyReader as Read>::read into a buffer of buflen bytes
body_read(b, buflen, c) ==
    IF buflen # 0 /\ b.remaining_len = 0
    THEN BrErr(b, "InsufficientRemainingLen")
    ELSE LET len == Min(buflen, b.remaining_len)
             read == inner_read(b.stream, len, c) IN
         BrOk([b EXCEPT !.remaining_len = @ - read,
                        !.stream = SubSeq(@, read + 1, Len(@))], read)

RECURSIVE read_exact(_, _, _)
\* Read::read_exact over the BodyReader, as the readers of the fixed-size
\* fields call it: read until the buffer is full, 0 bytes is an
\* unexpected end
read_exact(b, missing, c) ==
    IF missing = 0 THEN BrOk(b, 0)
    ELSE LET r == body_read(b, missing, c) IN
         IF ~r.ok THEN r
         ELSE IF r.n = 0 THEN BrErr(r.b, "UnexpectedEOF")
         ELSE read_exact(r.b, missing - r.n, c)

RECURSIVE store_loop(_, _, _, _)
\* the loop of read_and_store
store_loop(b, filled, len, c) ==
    IF filled >= len THEN BrOk(b, len)
    ELSE LET r == body_read(b, len - filled, c) IN
         IF ~r.ok THEN r
         ELSE IF r.n = 0 THEN BrErr(r.b, "UnexpectedEOF")
         ELSE store_loop(r.b, filled + r.n, len, c)

\* <BodyReader as Store>::read_and_store
read_and_store(b, len, c) ==
    IF b.remaining_len < len
    THEN BrErr(b, "InsufficientRemainingLen")
    ELSE store_loop(b, 0, len, c)

RECURSIVE skip_loop(_, _, _)
\* the loop of BodyReader::skip: it reads from the stream itself
skip_loop(b, missing, c) ==
    IF missing = 0 THEN BrOk(b, 0)
    ELSE LET r == inner_read(b.stream, Min(CHUNK_SIZE, missing), c) IN
         IF r = 0 THEN BrErr(b, "UnexpectedEOF")
         ELSE skip_loop([b EXCEPT !.stream = SubSeq(@, r + 1, Len(@))],
                        missing - r, c)

\* BodyReader::skip: the budget is charged first, unchecked; with
\* overflow checks the subtraction panics, without them it wraps
body_skip(b, len, c, checks) ==
    IF len > b.remaining_len /\ checks
    THEN BrErr(b, "panic: attempt to subtract with overflow")
    ELSE skip_loop([b EXCEPT !.remaining_len =
                        (@ - len + UsizeModulus) % UsizeModulus],
                   len, c)

\* byte values of the streams under a BodyReader
StreamBytes == {1, 2}
BodyStreams == UNION {[1..k -> StreamBytes] : k \in 0..MaxStream}

\* sizes of the fixed-size fields: u8, u16, u32
FieldSizes == {1, 2, 4}

NoBodyOp ==
    [op |-> "none", len |-> 0, ok |-> TRUE, err |-> "", rl |-> 0,
     avail |-> 0, consumed |-> 0, ops |-> 0]

BodyReaderInit ==
    /\ br = NoBodyReader
    /\ blast = NoBodyOp

\* the record of an operation op(len) on the reader that returned r
BodyOp(op, len, r) ==
    [op |-> op, len |-> len, ok |-> r.ok, err |-> r.err,
     rl |-> br.remaining_len, avail |-> Len(br.stream),
     consumed |-> Len(br.stream) - Len(r.b.stream),
     ops |-> blast.ops + 1]

NewBodyReader(s, rl) ==
    /\ ~br.made
    /\ br' = BodyReaderNew(s, rl)
    /\ blast' = [NoBodyOp EXCEPT !.op = "new"]
    /\ UNCHANGED <<rxvars, rawvars, txvars, decvars, vbivars, abortvars>>

BodyStep(op, len, r) ==
    /\ br.made
    /\ blast.ops < MaxOps
    /\ br' = r.b
    /\ blast' = BodyOp(op, len, r)
    /\ UNCHANGED <<rxvars, rawvars, txvars, decvars, vbivars, abortvars>>

\* a read of a u8, u16 or u32 from the BodyReader
ReadField(N, c) == BodyStep("field", N, read_exact(br, N, c))
ReadAndStore(len, c) == BodyStep("store", len, read_and_store(br, len, c))
BodySkip(len, c, checks) == BodyStep("skip", len, body_skip(br, len, c, checks))

NextBody ==
    \/ \E s \in BodyStreams : \E rl \in 0..(MaxStream + 1) :
            NewBodyReader(s, rl)
    \/ \E N \in FieldSizes : \E c \in 1..MaxChunk : ReadField(N, c)
    \/ \E len \in 0..(MaxStream + 1) : \E c \in 1..MaxChunk :
            ReadAndStore(len, c)
    \/ \E len \in 0..(MaxStream + 1) : \E c \in 1..MaxChunk :
       \E checks \in BOOLEAN : BodySkip(len, c, checks)

C33_SkipBoundedByBudget ==
    (blast.op = "skip") =>
        /\ blast.len > blast.rl =>
            /\ ~blast.ok
            /\ blast.err \in {"InsufficientRemainingLen", "UnexpectedEOF"}
            /\ blast.consumed = 0
            /\ br.remaining_len = blast.rl
        /\ blast.ok =>
            /\ blast.consumed = blast.len
            /\ br.remaining_len = blast.rl - blast.len

\* ------------------------------------------------------------------
\* Variable byte integers: the encoding and the length of the header
\* ------------------------------------------------------------------

RECURSIVE vbi_encode(_)
\* the encoding of a variable byte integer: seven bits a byte, the lowest
\* group first, the continuation bit on every byte but the last
vbi_encode(v) ==
    IF v < ContinuationBit THEN <<v>>
    ELSE <<(v % 128) + ContinuationBit>> \o vbi_encode(v \div 128)

\* VarByteInt::MAX_ENCODABLE
MaxEncodable == 268435455

\* the values encoded: both ends of every length of the encoding and
\* values in between
VbiValues ==
    {0, 1, 2, 64, 127, 128, 129, 255, 256, 300, 16383, 16384, 16385, 20000,
     2097151, 2097152, 2097153, 3000000, 268435454, MaxEncodable}

\* length fields that do not end within four bytes
Unterminated ==
    {<<128, 128, 128, 128, 1>>, <<255, 255, 255, 255, 127>>,
     <<129, 128, 255, 128, 0>>}

\* the first byte of the packets: a CONNECT
ConnectByte == 16

NoVbi == [chosen |-> FALSE, valid |-> FALSE, v |-> 0, enc |-> <<>>]

VbiInit == vbi = NoVbi

\* a packet with remaining length v is about to arrive
VbiEncode(v) ==
    /\ ~vbi.chosen
    /\ vbi' = [chosen |-> TRUE, valid |-> TRUE, v |-> v,
               enc |-> vbi_encode(v)]
    /\ UNCHANGED <<rxvars, rawvars, txvars, decvars, bodyvars, abortvars>>

\* a packet with a length field that does not end is about to arrive
VbiBroken(s) ==
    /\ ~vbi.chosen
    /\ vbi' = [chosen |-> TRUE, valid |-> FALSE, v |-> 0, enc |-> s]
    /\ UNCHANGED <<rxvars, rawvars, txvars, decvars, bodyvars, abortvars>>

\* the transport delivers the next byte of the packet to try_read_header
VbiFeed ==
    /\ vbi.chosen
    /\ Len(rx) < 1 + Len(vbi.enc)
    /\ HeaderStep((<<ConnectByte>> \o vbi.enc)[Len(rx) + 1])

NextVbi ==
    \/ \E v \in VbiValues : VbiEncode(v)
    \/ \E s \in Unterminated : VbiBroken(s)
    \/ PollStart
    \/ VbiFeed

\* the number of bytes a value needs at least
MinimalLen(v) ==
    IF v < 128 THEN 1 ELSE IF v < 16384 THEN 2 ELSE IF v < 2097152 THEN 3
    ELSE 4

\* C34: decoding the encoding of v gives v, the encoding has the fewest
\* bytes (1 to 4) with the continuation bit on all but the last, and a
\* length field that does not end within four bytes is rejected.
C34_VarByteIntRoundTrip ==
    /\ (vbi.chosen /\ vbi.valid) =>
        /\ Len(vbi.enc) = MinimalLen(vbi.v)
        /\ \A k \in 1..(Len(vbi.enc) - 1) : vbi.enc[k] >= ContinuationBit
        /\ vbi.enc[Len(vbi.enc)] < ContinuationBit
        /\ Len(rx) = 1 + Len(vbi.enc) =>
            header = SomeHeader(ConnectByte, vbi.v)
    /\ (vbi.chosen /\ ~vbi.valid /\ Len(rx) = 5) =>
        /\ returned /\ hdrCount = 0 /\ ~header.some
        /\ pc = "idle" => res = ErrRes("InvalidVarByteInt")

C34_Witness ==
    /\ vbi.chosen /\ vbi.valid /\ vbi.v = MaxEncodable
    /\ vbi.enc = <<255, 255, 255, 127>>
    /\ rx = <<16, 255, 255, 255, 127>>
    /\ header = SomeHeader(16, 268435455)

\* C35: when poll returns the token of the first packet it has taken from
\* the transport the bytes of that packet's fixed header and remaining_len
\* body bytes, and not one byte of what follows.
C35_TakesExactlyOnePacket ==
    (tokens >= 1) =>
        /\ HeaderEndIdx(rx) > 0
        /\ firstTokenEnd =
                HeaderEndIdx(rx) + SumGroups(rx, 2, HeaderEndIdx(rx))

\* C36: an operation other than set_net that starts in Faulted or
\* Terminated does not end in Ok.
C36_OnlySetNetMakesOk ==
    (last.op \notin {"new", "set_net"} /\ ~is_ok(last.pre)) => ~is_ok(n)

C36_Witness ==
    /\ last.op = "close_with" /\ last.pre.tag = "Faulted"
    /\ last.arg # NoReason /\ last.arg # last.pre.rc
    /\ n = Faulted(last.pre.net, last.arg)

\* ------------------------------------------------- abort, write by write
\* the number of the DISCONNECT packet on the stream; sends count from 1
DisconnectPkt == 0

\* Raw::abort is called: up to packet.send(n).await, or its return; cur
\* counts the packets whose sending was started
AbortStart(checked) ==
    /\ apc = "idle"
    /\ IF is_ok(n) /\ checked
       THEN /\ last' = Op("abort", "", "Panic", "")
            /\ UNCHANGED <<n, apc, aloc, disc, sent, cur>>
       ELSE LET r == get_reason_code(n)
                t == terminate(n)
            IN  /\ n' = t.n
                /\ IF t.net # NoNet /\ r # NoReason
                   THEN /\ cur < MaxWire
                        /\ cur' = cur + 1
                        /\ apc' = "writing"
                        /\ aloc' = [net |-> t.net, rc |-> r]
                        /\ sent' = 0
                        /\ disc' = Min(disc + 1, 2)
                        /\ last' = Op("abort", "", "Pending", "")
                   ELSE /\ last' = IF t.net = NoNet /\ r # NoReason
                                   THEN Op("abort", "", "Panic", "unreachable")
                                   ELSE Op("abort", "", "Ok", "")
                        /\ UNCHANGED <<apc, aloc, disc, sent, cur>>
    /\ prevTxFailed' = TxFailed(last)
    /\ UNCHANGED <<wire, spc, stream, rxvars, decvars, bodyvars, vbivars>>

\* one awaited write of the DISCONNECT puts k more of its bytes on the
\* transport taken out of the state; with the last byte abort returns Ok
\* and drops the transport
AbortWrite(k) ==
    /\ apc = "writing"
    /\ k <= PacketLen - sent
    /\ stream' = stream \o
            [j \in 1..k |-> WireByte(aloc.net, DisconnectPkt, sent + j)]
    /\ sent' = sent + k
    /\ IF sent + k = PacketLen
       THEN /\ apc' = "idle"
            /\ aloc' = NoLocals
            /\ last' = [last EXCEPT !.result = "Ok"]
       ELSE UNCHANGED <<apc, aloc, last>>
    /\ UNCHANGED <<n, wire, prevTxFailed, disc, spc, cur, rxvars, decvars,
                   bodyvars, vbivars>>

\* an awaited write of the DISCONNECT fails: abort returns the error
AbortWriteFails(out) ==
    /\ apc = "writing"
    /\ out # "Ok"
    /\ apc' = "idle"
    /\ aloc' = NoLocals
    /\ last' = [last EXCEPT !.result = "Err", !.err = TxErrorIntoRaw(out)]
    /\ UNCHANGED <<n, wire, prevTxFailed, disc, txvars, rxvars, decvars,
                   bodyvars, vbivars>>

\* a variant of the cancellation in which the dropped abort future gives
\* the transport and the reason code back to the state
AbortCancelKeepsFault ==
    /\ apc = "writing"
    /\ apc' = "idle"
    /\ n' = Faulted(aloc.net, aloc.rc)
    /\ aloc' = NoLocals
    /\ last' = [last EXCEPT !.result = "Cancelled"]
    /\ UNCHANGED <<wire, prevTxFailed, disc, txvars, rxvars, decvars,
                   bodyvars, vbivars>>

\* the abort future is dropped at packet.send(n).await: its locals, the
\* transport among them, are dropped; the state was set before the await
AbortCancel ==
    /\ apc = "writing"
    /\ apc' = "idle"
    /\ aloc' = NoLocals
    /\ last' = [last EXCEPT !.result = "Cancelled"]
    /\ UNCHANGED <<n, wire, prevTxFailed, disc, txvars, rxvars, decvars,
                   bodyvars, vbivars>>

NextAbort ==
    \/ \E t \in Transports, checked \in BOOLEAN :
            apc = "idle" /\ SetNet(t, checked)
    \/ \E r \in ReasonCodes \cup {NoReason} : apc = "idle" /\ CloseWith(r)
    \/ \E e \in RxErrors : apc = "idle" /\ HandleRx(e)
    \/ \E checked \in BOOLEAN : AbortStart(checked)
    \/ \E k \in 1..PacketLen : AbortWrite(k)
    \/ \E out \in WriteOutcomes : AbortWriteFails(out)
    \/ AbortCancel

\* C37: between one set_net and the next at most one write of a
\* DISCONNECT is started, whatever failures, close_with calls and aborts
\* happen, and it is started by an abort that found the state Faulted.
C37_OneDisconnectPerTransport ==
    /\ disc <= 1
    /\ apc = "writing" =>
        (disc = 1 /\ last.op = "abort" /\ last.pre.tag = "Faulted")
    /\ (last.op = "abort" /\ last.pre.tag = "Terminated") => apc = "idle"

C37_Witness ==
    /\ disc = 1 /\ apc = "idle" /\ last.op = "abort"
    /\ last.pre.tag = "Terminated" /\ last.result = "Ok"
    /\ Len(stream) = PacketLen

\* C38: abort has set the state to Terminated and taken the transport out
\* before it writes; cancelled in that write it leaves Terminated, no
\* reason code and a dropped transport with a DISCONNECT that may be
\* incomplete, and an abort that finds Terminated returns Ok.
C38_CancelledAbortIsTerminated ==
    /\ apc = "writing" =>
        (n = Terminated /\ aloc.net # NoNet /\ aloc.rc = last.pre.rc)
    /\ (last.op = "abort" /\ last.result = "Cancelled") =>
        /\ n = Terminated
        /\ apc = "idle" /\ aloc = NoLocals
        /\ get_reason_code(n) = NoReason
        /\ sent < PacketLen
    /\ (last.op = "abort" /\ last.pre.tag = "Terminated") =>
        last.result = "Ok"

C38_Witness ==
    /\ last.op = "abort" /\ last.result = "Cancelled"
    /\ n = Terminated /\ sent = 1 /\ Len(stream) = 1
    /\ stream[1].pkt = DisconnectPkt

\* ------------------------------------------------------------------
\* The receiver of a Raw next to its NetState: PacketReceiver::poll is
\* driven on a connection that is Ok, and set_net and close_with are
\* called between polls.
\* ------------------------------------------------------------------
\* byte values on the transports: a CONNECT type byte and a length of 2
MixBytes == {2, 16}

NextMix ==
    \/ \E t \in Transports, checked \in BOOLEAN :
            pc = "idle" /\ SetNet(t, checked)
    \/ \E r \in ReasonCodes \cup {NoReason} : pc = "idle" /\ CloseWith(r)
    \/ is_ok(n) /\ PollStart
    \/ \E b \in MixBytes : HeaderByte(b)
    \/ \E s \in UNION {[1..len -> MixBytes] : len \in 1..MaxChunk} :
            BodyBytes(s)
    \/ Cancel

\* C39: set_net(t2) in Faulted(t1, r) gives Ok(t2) without the reason
\* code; no DISCONNECT was or is written to t1, and header, initialized
\* and the buffer of the receiver stay as t1 left them.
C39_SetNetOnFaulted ==
    [][(n.tag = "Faulted" /\ last'.op = "set_net" /\ n' # n) =>
            /\ n'.tag = "Ok" /\ ToString(n'.net) = last'.arg
            /\ get_reason_code(n') = NoReason
            /\ disc = 0 /\ wire' = wire /\ stream' = stream
            /\ header' = header
            /\ initialized' = initialized
            /\ buf' = buf]_vars

C39_Witness ==
    /\ last.op = "set_net" /\ last.result = "Ok"
    /\ last.pre = Faulted(1, "MalformedPacket") /\ n = Ok(2)
    /\ header.some /\ header.remaining_len = 2 /\ initialized = 1
    /\ buf[0] = 16

\* C40: a recv that comes after a send or flush that succeeded on the same
\* transport, and that has a whole packet to take, yields the token and
\* leaves the state Ok with that transport, as it would have without the
\* send.
C40_SendBetweenRecvsIsInvisible ==
    (/\ last.op = "recv" /\ last.arg = "Ok" /\ is_ok(last.pre)
     /\ Len(wire) > 0
     /\ wire[Len(wire)].ok
     /\ wire[Len(wire)].kind \in {"packet", "flush"}
     /\ wire[Len(wire)].net = last.pre.net) =>
        /\ last.result = "Ok"
        /\ n = last.pre

Init == ReceiverInit /\ RawInit /\ SendInit /\ DecoderInit /\ BodyReaderInit
        /\ VbiInit

Next ==
    \/ PollStart
    \/ \E b \in Bytes : HeaderByte(b)
    \/ \E e \in ReadErrors : HeaderReadFails(e)
    \/ \E s \in Chunks : BodyBytes(s)
    \/ \E e \in ReadErrors : BodyReadFails(e)
    \/ Cancel
    \/ \E checked \in BOOLEAN : IntoDecoder(checked)

\* header assembly alone, over the byte values of HeaderBytes
NextHdr ==
    \/ PollStart
    \/ \E b \in HeaderBytes : Len(rx) < MaxHdrBytes /\ HeaderStep(b)

Spec == Init /\ [][Next]_vars

SpecHdr == Init /\ [][NextHdr]_vars

SpecRaw == Init /\ [][NextRaw]_vars

SpecRx == Init /\ [][NextRx]_vars

SpecSend == Init /\ [][NextSend]_vars

SpecDec == Init /\ [][NextDec]_vars

SpecBody == Init /\ [][NextBody]_vars

SpecVbi == Init /\ [][NextVbi]_vars

SpecAbort == Init /\ [][NextAbort]_vars

SpecMix == Init /\ [][NextMix]_vars

====
